---- MODULE Spec2Model ----
(***************************************************************************)
(* Model of explore-rotations-2: the pi-fraction formatter (pi_format.py)  *)
(* and the two scripts that use it (rotate_2d_live.py and                  *)
(* conjugated_rotation_trajectory.py).                                     *)
(*                                                                         *)
(* Real numbers are fixed-point integers in units of 1/Unit = 0.0001, so   *)
(* 0.02 is 200 and pi is 31416; with that value of pi every target n*pi/d  *)
(* (d in 1,2,4,8) is a whole number of units.  A grid value is taken as    *)
(* the exact decimal it denotes.  Angles are whole degrees.  Strings are   *)
(* TLA+ strings, built with \o as the code builds them with f-strings.     *)
(***************************************************************************)
EXTENDS Integers, Sequences, FiniteSets, TLC

VARIABLES
    value, epsilon, result,      \* a call of format_value and what it returned
    n, d, frac,                  \* a call of _format_pi_fraction and what it returned
    matrix, formatted,           \* a call of format_matrix_2x2 and what it returned
    pc,                          \* where each script's start-up stands
    s_theta_val,                 \* rotate_2d_live: s_theta.val, in degrees
    rot_data,                    \* rotate_2d_live: the data of the curve ax_rot
    matrix_text                  \* rotate_2d_live: the text of matrix_text

vars == << value, epsilon, result, n, d, frac, matrix, formatted,
           pc, s_theta_val, rot_data, matrix_text >>

formatterVars == << value, epsilon, result, n, d, frac, matrix, formatted >>
scriptVars == << pc, s_theta_val, rot_data, matrix_text >>

----------------------------------------------------------------------------
(* Fixed point                                                             *)

Unit == 10 * 1000

\* np.pi, in units of 1/Unit
Pi == 31416

\* the default of the parameter epsilon, 2e-2, in units of 1/Unit
DefaultEpsilon == 200

----------------------------------------------------------------------------
(* Bounds of the checked inputs                                            *)

\* format_value is applied to every value v with |v| <= MaxValue
MaxValue == 8500

\* ... and to every value within MaxOff units of a target n*pi/d, and of
\* the two ends target - epsilon, target + epsilon of its window
MaxOff == 2

\* matrix entries are the multiples k * EntryStep, |k| <= MaxEntry
MaxEntry == 4

EntryStep == Unit \div 4

\* the tolerances tried: a tight one, the default, and one wider than pi
Epsilons == { 2, DefaultEpsilon, 4 * Unit }

----------------------------------------------------------------------------
(* pi_format.py                                                            *)

abs(x) == IF x < 0 THEN -x ELSE x

RECURSIVE gcd(_, _)
gcd(a, b) == IF b = 0 THEN a ELSE gcd(b, a % b)

Digit(k) == << "0", "1", "2", "3", "4", "5", "6", "7", "8", "9" >>[k + 1]

\* str(k) of a non-negative integer
RECURSIVE str(_)
str(k) == IF k < 10 THEN Digit(k) ELSE str(k \div 10) \o Digit(k % 10)

denominators == << 1, 2, 4, 8 >>

FirstNumerator == -16

LastNumerator == 16

\* range(-16, 16): the last numerator is left out
numeratorsShort ==
    [ i \in 1..(LastNumerator - FirstNumerator) |-> FirstNumerator + i - 1 ]

numerators == [ i \in 1..(LastNumerator - FirstNumerator + 1) |-> FirstNumerator + i - 1 ]

\* target = n * np.pi / d
Target(nn, dd) == (nn * Pi) \div dd

\* abs(value) - target < epsilon: the parenthesis closes too early
MatchesMisplaced(v, e, nn, dd) == abs(v) - Target(nn, dd) < e

\* abs(value - target) < epsilon
Matches(v, e, nn, dd) == abs(v - Target(nn, dd)) < e

\* the fraction is rendered without being simplified
_format_pi_fraction_unsimplified(nn, dd) ==
    IF nn = 0 THEN "0"
    ELSE
        LET sign == IF nn < 0 THEN "-" ELSE ""
            n_abs == abs(nn)
        IN  IF dd = 1
            THEN IF n_abs = 1 THEN sign \o "π"
                 ELSE sign \o str(n_abs) \o "π"
            ELSE IF n_abs = 1 THEN sign \o "π/" \o str(dd)
                 ELSE sign \o str(n_abs) \o "π/" \o str(dd)

\* the numerator 1 is written out
_format_pi_fraction_with_one(nn, dd) ==
    IF nn = 0 THEN "0"
    ELSE
        LET g == gcd(abs(nn), dd)
            n_simplified == nn \div g
            d_simplified == dd \div g
            sign == IF n_simplified < 0 THEN "-" ELSE ""
            n_abs == abs(n_simplified)
        IN  IF d_simplified = 1
            THEN sign \o str(n_abs) \o "π"
            ELSE sign \o str(n_abs) \o "π/" \o str(d_simplified)

_format_pi_fraction(nn, dd) ==
    IF nn = 0 THEN "0"
    ELSE
        LET g == gcd(abs(nn), dd)
            n_simplified == nn \div g
            d_simplified == dd \div g
            sign == IF n_simplified < 0 THEN "-" ELSE ""
            n_abs == abs(n_simplified)
        IN  IF d_simplified = 1
            THEN IF n_abs = 1 THEN sign \o "π"
                 ELSE sign \o str(n_abs) \o "π"
            ELSE IF n_abs = 1 THEN sign \o "π/" \o str(d_simplified)
                 ELSE sign \o str(n_abs) \o "π/" \o str(d_simplified)

\* f"{value:.3f}": no sign position
FormatDecimalNoSpace(v) ==
    LET a == abs(v)
        q == a \div (Unit \div 1000)
        r == a % (Unit \div 1000)
        half == (Unit \div 1000) \div 2
        t == IF r > half \/ (r = half /\ q % 2 = 1) THEN q + 1 ELSE q
        f == t % 1000
    IN  (IF v < 0 THEN "-" ELSE "")
        \o str(t \div 1000) \o "."
        \o Digit(f \div 100) \o Digit((f \div 10) % 10) \o Digit(f % 10)

\* f"{value: .2f}": two decimals
FormatDecimalTwoPlaces(v) ==
    LET a == abs(v)
        q == a \div (Unit \div 100)
        r == a % (Unit \div 100)
        half == (Unit \div 100) \div 2
        t == IF r > half \/ (r = half /\ q % 2 = 1) THEN q + 1 ELSE q
        f == t % 100
    IN  (IF v < 0 THEN "-" ELSE " ")
        \o str(t \div 100) \o "."
        \o Digit(f \div 10) \o Digit(f % 10)

\* f"{value: .3f}": the sign position (a space when not negative), then the
\* value rounded to thousandths, ties to even, with three decimals
FormatDecimal(v) ==
    LET a == abs(v)
        q == a \div (Unit \div 1000)
        r == a % (Unit \div 1000)
        half == (Unit \div 1000) \div 2
        t == IF r > half \/ (r = half /\ q % 2 = 1) THEN q + 1 ELSE q
        f == t % 1000
    IN  (IF v < 0 THEN "-" ELSE " ")
        \o str(t \div 1000) \o "."
        \o Digit(f \div 100) \o Digit((f \div 10) % 10) \o Digit(f % 10)

\* the inner loop of format_value for the denominator dd: the positions in
\* numerators, in ascending order, whose target matches
MatchingAt(v, e, dd) ==
    { ni \in 1..Len(numerators) : Matches(v, e, numerators[ni], dd) }

Least(S) == CHOOSE i \in S : \A j \in S : i <= j

\* the two loops of format_value from the denominator at di on, d outer and
\* n inner, returning at the first match and the decimal when both run out
RECURSIVE Search(_, _, _)
Search(v, e, di) ==
    IF di > Len(denominators) THEN FormatDecimal(v)
    ELSE LET hits == MatchingAt(v, e, denominators[di])
         IN  IF hits # {}
             THEN _format_pi_fraction(numerators[Least(hits)], denominators[di])
             ELSE Search(v, e, di + 1)

\* the search starts without the check for zero
format_value_unchecked(v, e) == Search(v, e, 1)

format_value(v, e) ==
    IF abs(v) < e THEN "0" ELSE Search(v, e, 1)

\* the entries are read column by column
format_matrix_2x2_transposed(m, e) ==
    LET v00 == format_value(m[1][1], e)
        v01 == format_value(m[2][1], e)
        v10 == format_value(m[1][2], e)
        v11 == format_value(m[2][2], e)
    IN  "[" \o v00 \o "  " \o v01 \o "]\n    [" \o v10 \o "  " \o v11 \o "]"

format_matrix_2x2(m, e) ==
    LET v00 == format_value(m[1][1], e)
        v01 == format_value(m[1][2], e)
        v10 == format_value(m[2][1], e)
        v11 == format_value(m[2][2], e)
    IN  "[" \o v00 \o "  " \o v01 \o "]\n    [" \o v10 \o "  " \o v11 \o "]"

----------------------------------------------------------------------------
(* rotate_2d_live.py                                                       *)

\* np.sin of 0..90 degrees, in units of 1/Unit
SinTable ==
    << 0, 175, 349, 523, 698, 872, 1045, 1219, 1392, 1564,
       1736, 1908, 2079, 2250, 2419, 2588, 2756, 2924, 3090, 3256,
       3420, 3584, 3746, 3907, 4067, 4226, 4384, 4540, 4695, 4848,
       5000, 5150, 5299, 5446, 5592, 5736, 5878, 6018, 6157, 6293,
       6428, 6561, 6691, 6820, 6947, 7071, 7193, 7314, 7431, 7547,
       7660, 7771, 7880, 7986, 8090, 8192, 8290, 8387, 8480, 8572,
       8660, 8746, 8829, 8910, 8988, 9063, 9135, 9205, 9272, 9336,
       9397, 9455, 9511, 9563, 9613, 9659, 9703, 9744, 9781, 9816,
       9848, 9877, 9903, 9925, 9945, 9962, 9976, 9986, 9994, 9998,
       10000 >>

\* np.sin(np.deg2rad(deg)) and np.cos(np.deg2rad(deg)), deg in -180..180
Sin(deg) ==
    LET a == abs(deg)
        s == IF a > 90 THEN SinTable[180 - a + 1] ELSE SinTable[a + 1]
    IN  IF deg < 0 THEN -s ELSE s

Cos(deg) ==
    LET a == abs(deg)
    IN  IF a > 90 THEN -SinTable[a - 90 + 1] ELSE SinTable[90 - a + 1]

R2(theta) ==
    LET c == Cos(theta)
        s == Sin(theta)
    IN  << << c, -s >>, << s, c >> >>

P == << << 0, 0, 1, 1, 1, -1, -1, -1, -1, 1, 0, 0 >>,
        << 0, 0, 1, -1, 1, 1, -1, 1, -1, -1, 0, 0 >> >>

\* R @ P, R in units of 1/Unit and P in whole numbers
MatMul(R, Q) ==
    [ i \in 1..2 |-> [ j \in 1..Len(Q[1]) |->
        R[i][1] * Q[1][j] + R[i][2] * Q[2][j] ] ]

\* the points ax.plot(P[0], P[1]) draws, in units of 1/Unit
Plotted(Q) == [ i \in 1..2 |-> [ j \in 1..Len(Q[1]) |-> Unit * Q[i][j] ] ]

\* Slider(ax_theta, ..., -180.0, 180.0, valinit=30.0)
ThetaMin == -180

ThetaMax == 180

ThetaInit == 30

\* the slider positions tried are ThetaStep degrees apart
ThetaStep == 5

Positions == { v \in ThetaMin..ThetaMax : (v - ThetaMin) % ThetaStep = 0 }

Scripts == { "rotate_2d_live", "conjugated_rotation_trajectory" }

\* the names pi_format.py defines
Exports == { "format_value", "_format_pi_fraction", "format_matrix_2x2" }

\* the names each script's "from pi_format import ..." asks for
Imports(s) ==
    IF s = "rotate_2d_live" THEN { "format_matrix_2x2" }
    ELSE { "format_matrix_2x2", "format_angle_degrees" }

\* on_change: redraw the rotated curve and the matrix text from s_theta.val
OnChange(theta) ==
    LET R == R2(theta)
    IN  /\ rot_data' = MatMul(R, P)
        /\ matrix_text' = "R = " \o format_matrix_2x2(R, DefaultEpsilon)

----------------------------------------------------------------------------
(* States and steps                                                        *)

\* a call that has not returned yet holds this in place of its result
NotReturned == ""

\* the values format_value is given under the tolerance e: those around
\* zero, and those at and next to each target and each end of its window
Inputs(e) ==
    (-MaxValue..MaxValue)
    \cup { Target(nn, denominators[di]) + k * e + off :
              nn \in FirstNumerator..LastNumerator, di \in 1..Len(denominators),
              k \in -1..1, off \in -MaxOff..MaxOff }

Entries == { k * EntryStep : k \in -MaxEntry..MaxEntry }

ZeroMatrix == << << 0, 0 >>, << 0, 0 >> >>

\* no call is under way and no script has started
Idle ==
    /\ value = 0
    /\ epsilon = DefaultEpsilon
    /\ result = NotReturned
    /\ n = 0
    /\ d = 1
    /\ frac = NotReturned
    /\ matrix = ZeroMatrix
    /\ formatted = NotReturned
    /\ pc = [ s \in Scripts |-> "start" ]
    /\ s_theta_val = ThetaInit
    /\ rot_data = << >>
    /\ matrix_text = ""

\* format_value is called with a value and a tolerance
Init ==
    /\ epsilon \in Epsilons
    /\ value \in Inputs(epsilon)
    /\ result = NotReturned
    /\ n = 0
    /\ d = 1
    /\ frac = NotReturned
    /\ matrix = ZeroMatrix
    /\ formatted = NotReturned
    /\ pc = [ s \in Scripts |-> "start" ]
    /\ s_theta_val = ThetaInit
    /\ rot_data = << >>
    /\ matrix_text = ""

\* _format_pi_fraction is called with a candidate of the search
InitFraction ==
    /\ n \in FirstNumerator..LastNumerator
    /\ d \in { denominators[di] : di \in 1..Len(denominators) }
    /\ frac = NotReturned
    /\ value = 0
    /\ epsilon = DefaultEpsilon
    /\ result = NotReturned
    /\ matrix = ZeroMatrix
    /\ formatted = NotReturned
    /\ pc = [ s \in Scripts |-> "start" ]
    /\ s_theta_val = ThetaInit
    /\ rot_data = << >>
    /\ matrix_text = ""

\* format_matrix_2x2 is called with a matrix and a tolerance
InitMatrix ==
    /\ matrix \in { << << a, b >>, << c, e >> >> :
                      a \in Entries, b \in Entries, c \in Entries, e \in Entries }
    /\ epsilon \in Epsilons
    /\ formatted = NotReturned
    /\ value = 0
    /\ result = NotReturned
    /\ n = 0
    /\ d = 1
    /\ frac = NotReturned
    /\ pc = [ s \in Scripts |-> "start" ]
    /\ s_theta_val = ThetaInit
    /\ rot_data = << >>
    /\ matrix_text = ""

\* both scripts are about to start
InitLive == Idle

\* format_value(value, epsilon) returns
FormatValue ==
    /\ result = NotReturned
    /\ result' = format_value(value, epsilon)
    /\ UNCHANGED << value, epsilon, n, d, frac, matrix, formatted >>
    /\ UNCHANGED scriptVars

\* _format_pi_fraction(n, d) returns
FormatPiFraction ==
    /\ frac = NotReturned
    /\ frac' = _format_pi_fraction(n, d)
    /\ UNCHANGED << value, epsilon, result, n, d, matrix, formatted >>
    /\ UNCHANGED scriptVars

\* format_matrix_2x2(matrix, epsilon) returns
FormatMatrix ==
    /\ formatted = NotReturned
    /\ formatted' = format_matrix_2x2(matrix, epsilon)
    /\ UNCHANGED << value, epsilon, result, n, d, frac, matrix >>
    /\ UNCHANGED scriptVars

\* a script runs its "from pi_format import ...": an ImportError ends it
Import ==
    \E s \in Scripts :
        /\ pc[s] = "start"
        /\ pc' = [ pc EXCEPT ![s] =
                     IF Imports(s) \subseteq Exports THEN "imported"
                     ELSE "ImportError" ]
        /\ UNCHANGED << s_theta_val, rot_data, matrix_text >>
        /\ UNCHANGED formatterVars

\* rotate_2d_live.py builds its figure: both curves are drawn from P, the
\* text from R2 of 30 degrees, the slider starts at valinit
Setup ==
    /\ pc["rotate_2d_live"] = "imported"
    /\ rot_data' = Plotted(P)
    /\ matrix_text' = "R = " \o format_matrix_2x2(R2(ThetaInit), DefaultEpsilon)
    /\ s_theta_val' = ThetaInit
    /\ pc' = [ pc EXCEPT !["rotate_2d_live"] = "built" ]
    /\ UNCHANGED formatterVars

\* s_theta.on_changed(on_change); btn_reset.on_clicked(reset); plt.show()
Show ==
    /\ pc["rotate_2d_live"] = "built"
    /\ pc' = [ pc EXCEPT !["rotate_2d_live"] = "show" ]
    /\ UNCHANGED << s_theta_val, rot_data, matrix_text >>
    /\ UNCHANGED formatterVars

\* the slider is dragged to another value: set_val stores it and calls
\* on_change
SliderMove ==
    \E v \in Positions :
        /\ pc["rotate_2d_live"] = "show"
        /\ v # s_theta_val
        /\ s_theta_val' = v
        /\ OnChange(v)
        /\ UNCHANGED pc
        /\ UNCHANGED formatterVars

\* Reset is clicked: s_theta.reset() sets valinit, and with it calls
\* on_change, only when the value differs from valinit
reset ==
    /\ pc["rotate_2d_live"] = "show"
    /\ IF s_theta_val # ThetaInit
       THEN /\ s_theta_val' = ThetaInit
            /\ OnChange(ThetaInit)
       ELSE UNCHANGED << s_theta_val, rot_data, matrix_text >>
    /\ UNCHANGED pc
    /\ UNCHANGED formatterVars

Next == FormatValue

NextFraction == FormatPiFraction

NextMatrix == FormatMatrix

NextLive == Import \/ Setup \/ Show \/ SliderMove \/ reset

\* format_value
Spec == Init /\ [][Next]_vars

\* _format_pi_fraction
SpecFraction == InitFraction /\ [][NextFraction]_vars

\* format_matrix_2x2
SpecMatrix == InitMatrix /\ [][NextMatrix]_vars

\* the two scripts
SpecLive == InitLive /\ [][NextLive]_vars

----------------------------------------------------------------------------
(* What the claims need to say                                             *)

\* the candidates (n, d) of the search grid
Grid ==
    { << nn, denominators[di] >> :
        nn \in FirstNumerator..LastNumerator, di \in 1..Len(denominators) }

\* the candidates whose target lies within e of v
Near(v, e) == { c \in Grid : Matches(v, e, c[1], c[2]) }

Char(s, i) == SubSeq(s, i, i)

IsDigit(c) == \E k \in 0..9 : c = Digit(k)

DigitValue(c) == CHOOSE k \in 0..9 : c = Digit(k)

AllDigits(s) == \A i \in 1..Len(s) : IsDigit(Char(s, i))

\* the number a string of digits writes
RECURSIVE Number(_)
Number(s) ==
    IF Len(s) = 0 THEN 0
    ELSE 10 * Number(SubSeq(s, 1, Len(s) - 1)) + DigitValue(Char(s, Len(s)))

\* a sign position, digits, a point, exactly three digits
IsDecimal(s) ==
    /\ Len(s) >= 6
    /\ Char(s, 1) \in { " ", "-" }
    /\ Char(s, Len(s) - 3) = "."
    /\ AllDigits(SubSeq(s, 2, Len(s) - 4))
    /\ AllDigits(SubSeq(s, Len(s) - 2, Len(s)))

\* the thousandths a decimal writes, without its sign
Thousandths(s) ==
    1000 * Number(SubSeq(s, 2, Len(s) - 4)) + Number(SubSeq(s, Len(s) - 2, Len(s)))

\* a zero written with a pi: "0π...", "-0π..."
ZeroWithPi(s) ==
    \/ Len(s) >= 2 /\ SubSeq(s, 1, 2) = "0π"
    \/ Len(s) >= 3 /\ SubSeq(s, 1, 3) = "-0π"

Divides(k, a) == a % k = 0

\* p/q is in lowest terms
Lowest(p, q) == \A k \in 2..q : ~(Divides(k, abs(p)) /\ Divides(k, q))

\* the rendering the specification gives of a fraction p/q in lowest terms
Rendering(p, q) ==
    IF p = 0 THEN "0"
    ELSE (IF p < 0 THEN "-" ELSE "")
         \o (IF abs(p) = 1 THEN "" ELSE str(abs(p)))
         \o "π"
         \o (IF q = 1 THEN "" ELSE "/" \o str(q))

\* the renderings the specification lists
Listed ==
    { << 0, 1, "0" >>, << 1, 1, "π" >>, << -1, 1, "-π" >>, << 2, 1, "2π" >>,
      << 1, 2, "π/2" >>, << -1, 2, "-π/2" >>, << 3, 4, "3π/4" >>,
      << -3, 4, "-3π/4" >>, << 2, 4, "π/2" >> }

\* the matrix of a rotation by 90 degrees
Rot90 == << << 0, -Unit >>, << Unit, 0 >> >>

----------------------------------------------------------------------------
(* The claims                                                              *)

\* C1: with the default epsilon, format_value of a target n*pi/d, for every
\* d in 1,2,4,8 and n in -16..16, returns the string
\* _format_pi_fraction(n, d) returns, n = 0 and the targets an earlier
\* candidate reaches included.
C1_TargetRoundTrip ==
    (result # NotReturned /\ epsilon = DefaultEpsilon) =>
        \A c \in Grid :
            value = Target(c[1], c[2]) => result = _format_pi_fraction(c[1], c[2])

\* the target of (4, 2), which the search reaches first as (2, 1)
C1_Witness ==
    /\ epsilon = DefaultEpsilon
    /\ value = Target(4, 2)
    /\ result = "2π"

\* C2: a value closer to zero than epsilon formats as "0", whatever epsilon
\* is and whichever candidates it is also close to, and no result writes a
\* zero with a pi.
C2_ZeroFirst ==
    result # NotReturned =>
        /\ abs(value) < epsilon => result = "0"
        /\ ~ZeroWithPi(result)

\* a value within epsilon of zero and of -pi, the first candidate in order
C2_Witness ==
    /\ result = "0"
    /\ value # 0
    /\ abs(value) < epsilon
    /\ Matches(value, epsilon, -1, 1)

\* C3: _format_pi_fraction(n, d) is the rendering of n/d in lowest terms:
\* "0" for zero, else the sign, the numerator unless it is 1, "π", and the
\* denominator unless it is 1; the listed cases come out as listed, and two
\* candidates of the same ratio give the same string.
C3_ReducedRendering ==
    frac # NotReturned =>
        /\ \E p \in FirstNumerator..LastNumerator, q \in 1..d :
              /\ p * d = n * q
              /\ Lowest(p, q)
              /\ frac = Rendering(p, q)
        /\ \A c \in Listed : (n = c[1] /\ d = c[2]) => frac = c[3]
        /\ \A c \in Grid :
              c[1] * d = n * c[2] => _format_pi_fraction(c[1], c[2]) = frac

\* the unreduced 2/4
C3_Witness ==
    /\ n = 2
    /\ d = 4
    /\ frac = "π/2"

\* C4: the result is a decimal exactly when the value is at least epsilon
\* from zero and no candidate is within epsilon of it; the decimal has a
\* space (not negative) or "-" (negative) first and exactly three decimals,
\* and is the value rounded to thousandths; 0.84 gives " 0.840".
C4_DecimalFallback ==
    result # NotReturned =>
        /\ IsDecimal(result) <=> (abs(value) >= epsilon /\ Near(value, epsilon) = {})
        /\ IsDecimal(result) =>
              /\ Char(result, 1) = (IF value < 0 THEN "-" ELSE " ")
              /\ 2 * abs(10 * Thousandths(result) - abs(value)) <= 10
        /\ (value = 8400 /\ epsilon = DefaultEpsilon) => result = " 0.840"

\* 0.84 under the default epsilon
C4_Witness ==
    /\ value = 8400
    /\ epsilon = DefaultEpsilon
    /\ result = " 0.840"

\* C5: the text of a matrix is "[" f(m00) two spaces f(m01) "]", a newline,
\* four spaces, "[" f(m10) two spaces f(m11) "]", f being format_value under
\* the same epsilon: row by row, each entry formatted on its own.
C5_MatrixLayout ==
    formatted # NotReturned =>
        LET f(i, j) == format_value(matrix[i][j], epsilon)
            Row(i) == "[" \o f(i, 1) \o "  " \o f(i, 2) \o "]"
        IN  formatted = Row(1) \o "\n    " \o Row(2)

\* a matrix of four different entries
C5_Witness ==
    /\ matrix = << << EntryStep, -2 * EntryStep >>, << 3 * EntryStep, 4 * EntryStep >> >>
    /\ epsilon = DefaultEpsilon
    /\ formatted = "[ 0.250  -0.500]\n    [ 0.750   1.000]"

\* C6, as claimed: the matrix of the rotation by 90 degrees formats to a
\* text that begins "[0  -π/2".
C6_Rot90AsClaimed ==
    (formatted # NotReturned /\ matrix = Rot90 /\ epsilon = DefaultEpsilon) =>
        SubSeq(formatted, 1, 8) = "[0  -π/2"

\* C6, amended: the matrix of the rotation by 90 degrees formats to
\* "[0  -1.000]", a newline, "    [ 1.000  0]": the entries -1 and 1 are
\* near no multiple of pi and come out as decimals.
C6_Rot90 ==
    (formatted # NotReturned /\ matrix = Rot90 /\ epsilon = DefaultEpsilon) =>
        formatted = "[0  -1.000]\n    [ 1.000  0]"

\* the rotation by 90 degrees has been formatted
C6_Witness ==
    /\ formatted # NotReturned
    /\ matrix = Rot90
    /\ epsilon = DefaultEpsilon

\* C7: every name a script imports from pi_format is one pi_format defines,
\* so no script stops at its import.
C7_ImportsResolve == \A s \in Scripts : pc[s] # "ImportError"

\* C8, as claimed: under the default epsilon at most one candidate (n, d) is
\* within epsilon of a value.
C8_OneCandidate ==
    (result # NotReturned /\ epsilon = DefaultEpsilon) =>
        Cardinality(Near(value, epsilon)) <= 1

\* C8, amended: under the default epsilon the candidates within epsilon of a
\* value all have the same ratio n/d, so at most one target is near.
C8_OneTarget ==
    epsilon = DefaultEpsilon =>
        \A a \in Near(value, epsilon), b \in Near(value, epsilon) :
            a[1] * b[2] = b[1] * a[2]

\* a value next to pi/2, which three candidates reach
C8_Witness ==
    /\ epsilon = DefaultEpsilon
    /\ value = Target(1, 2) + 1
    /\ Cardinality(Near(value, epsilon)) = 3
    /\ result = "π/2"

\* C9: under the default epsilon every candidate within epsilon of the value
\* renders to the string format_value returned, so the order of the search
\* does not show in the result.
C9_OrderFree ==
    (result # NotReturned /\ epsilon = DefaultEpsilon) =>
        \A c \in Near(value, epsilon) : _format_pi_fraction(c[1], c[2]) = result

\* a value near pi/4, which the search meets as (1, 4) and could meet as (2, 8)
C9_Witness ==
    /\ epsilon = DefaultEpsilon
    /\ result = "π/4"
    /\ value # Target(1, 4)
    /\ << 2, 8 >> \in Near(value, epsilon)

\* C10: once the figure of rotate_2d_live is built, the rotated curve is
\* R2(theta) applied to P and the text is "R = " and the formatted R2(theta),
\* theta being the slider's value.
C10_DisplayFollowsSlider ==
    pc["rotate_2d_live"] \in { "built", "show" } =>
        /\ rot_data = MatMul(R2(s_theta_val), P)
        /\ matrix_text = "R = " \o format_matrix_2x2(R2(s_theta_val), DefaultEpsilon)

====
